---- MODULE Spec2Model ----
(***************************************************************************)
(* A model of the Bitnodes country-delta bot.                              *)
(*                                                                         *)
(*   bot.py       the long-running bot: main loop, signal flag, state      *)
(*                store (write-to-temp-then-rename), report formatter      *)
(*   bot_once.py  the one-shot bot: aggregation with an unknown bucket,    *)
(*                state save/load, line-boundary chunking                  *)
(*                                                                         *)
(* Python values are modelled as follows.  A dict is a sequence of         *)
(* [code, n] pairs in insertion order (Python dicts keep it).  An optional *)
(* JSON field is a sequence of length 0 or 1.  Python's None, as a country *)
(* code or a dict key, is the token None below, which is no string any     *)
(* input set contains.  A text is a sequence of characters.                *)
(***************************************************************************)
EXTENDS Integers, Sequences, FiniteSets, TLC

VARIABLES
    \* ---- bot.py: the process ----
    pc,            \* position of the main thread in main()
    should_stop,   \* _should_stop
    state,         \* main's local `state`
    now,           \* main's local `now`
    next_run,      \* main's local `next_run`
    snap,          \* main's local `snap` (0 or 1 snapshot)
    cur,           \* ts, total_now, by_cc_now of the running cycle (0 or 1)
    prev,          \* total_prev, by_cc_prev of the running cycle (0 or 1)
    report,        \* main's local `report` (0 or 1)
    \* ---- bot.py: the environment ----
    file,          \* content of state.json
    tmp,           \* content of state.json.tmp
    clock,         \* wall clock, seconds
    restarts,      \* how often the process was started again after a kill
    \* ---- bot.py: history of the running cycle ----
    sent,          \* send_telegram returned in this cycle
    outcome,       \* "none" | "running" | "ok" | "failed": the latest cycle
    last_outcome,  \* the outcome of the cycle before the running one
    cycle_file,    \* content of state.json when the cycle started
    cycle_state,   \* `state` when the cycle started
    sig_at,        \* where main was when the signal arrived: "none" | "idle" | "test" | "cycle"
    \* ---- bot.py: format_report applied to drawn inputs ----
    r_pc, r_in, r_agg, r_prev, r_report,
    \* ---- bot_once.py: send_chunked ----
    c_pc, c_text, c_chunk_size, c_lines, c_i, c_chunk, c_size, c_sent,
    \* ---- bot_once.py: consecutive runs of main ----
    o_pc, o_file, o_nodes, o_agg, o_prev, o_olds, o_saved_agg, o_runs

botVars    == <<pc, should_stop, state, now, next_run, snap, cur, prev, report,
                file, tmp, clock, restarts, sent, outcome, last_outcome,
                cycle_file, cycle_state, sig_at>>
reportVars == <<r_pc, r_in, r_agg, r_prev, r_report>>
chunkVars  == <<c_pc, c_text, c_chunk_size, c_lines, c_i, c_chunk, c_size, c_sent>>
onceVars   == <<o_pc, o_file, o_nodes, o_agg, o_prev, o_olds, o_saved_agg, o_runs>>
vars       == <<botVars, reportVars, chunkVars, onceVars>>

----------------------------------------------------------------------------
\* Bounds of the model.

MaxIntervals   == 1   \* the clock runs to MaxIntervals report intervals
MaxRestarts    == 1   \* restarts of a killed process
DeclaredTotal  == 5   \* the total_nodes a snapshot may declare
SnapshotTs     == 7   \* the timestamp a snapshot may carry
MaxReportNodes == 3   \* nodes in a snapshot given to format_report
MaxTopN        == 2   \* top_n given to format_report
MaxPrevNodes   == 2   \* nodes in the snapshot behind the previous baseline
MaxTextLen     == 5   \* characters of a text given to send_chunked
MaxChunkSize   == 3   \* chunk_size given to send_chunked
MaxOnceNodes   == 3   \* nodes in a snapshot of bot_once.py
MaxOnceRuns    == 2   \* consecutive runs of bot_once.py

----------------------------------------------------------------------------
\* Python values.

None == "<None>"

Min(a, b) == IF a < b THEN a ELSE b

RECURSIVE SumN(_)
SumN(items) == IF items = <<>> THEN 0 ELSE Head(items).n + SumN(Tail(items))

Keys(d) == {d[i].code : i \in 1..Len(d)}

\* dict.get(key, default)
Get(d, key, default) ==
    IF \E i \in 1..Len(d) : d[i].code = key
    THEN LET i == CHOOSE j \in 1..Len(d) : d[j].code = key IN d[i].n
    ELSE default

\* d[key] = d.get(key, 0) + 1: a new key goes last, an old one keeps its place
Incr(d, key) ==
    IF \E i \in 1..Len(d) : d[i].code = key
    THEN LET i == CHOOSE j \in 1..Len(d) : d[j].code = key
         IN  [d EXCEPT ![i].n = @ + 1]
    ELSE Append(d, [code |-> key, n |-> 1])

----------------------------------------------------------------------------
\* bot.py: constants.

interval   == 30
top_n      == 15
SleepSecs  == 2

COUNTRY_CODE_TO_NAME ==
    ("US" :> "United States") @@ ("DE" :> "Germany") @@ ("FR" :> "France") @@
    ("FI" :> "Finland") @@ ("CA" :> "Canada") @@ ("NL" :> "Netherlands") @@
    ("GB" :> "United Kingdom") @@ ("CH" :> "Switzerland") @@
    ("RU" :> "Russian Federation") @@ ("AU" :> "Australia") @@
    ("SG" :> "Singapore") @@ ("JP" :> "Japan") @@
    ("KR" :> "Korea (Republic of)") @@ ("CZ" :> "Czechia") @@
    ("CN" :> "China") @@ ("BR" :> "Brazil") @@ ("IN" :> "India")

human_country(code) ==
    IF code \in DOMAIN COUNTRY_CODE_TO_NAME THEN COUNTRY_CODE_TO_NAME[code] ELSE code

----------------------------------------------------------------------------
\* bot.py: the state store.

\* The values of main's `state`: a dict with an optional "last" entry, or,
\* read from a file that holds other JSON, a list.
EmptyState == [t |-> "dict", last |-> <<>>]
ListState  == [t |-> "list", last |-> <<>>]
NoDoc      == [t |-> "none", last |-> <<>>]

\* The contents of a file: absent, a JSON document, bytes that are no JSON
\* document ("garbage"), or the prefix of a document being written ("partial").
Absent      == [k |-> "absent",  v |-> NoDoc]
Garbage     == [k |-> "garbage", v |-> NoDoc]
Partial     == [k |-> "partial", v |-> NoDoc]
json_dump(s) == [k |-> "json", v |-> s]

load_state(f) ==
    IF f.k = "absent" THEN EmptyState
    ELSE IF f.k = "json" THEN f.v
    ELSE EmptyState

----------------------------------------------------------------------------
\* bot.py: aggregation and the report.

RECURSIVE CountCodes(_, _)
CountCodes(ccs, counts) ==
    IF ccs = <<>> THEN counts
    ELSE CountCodes(Tail(ccs),
                    IF Head(ccs) = None THEN counts ELSE Incr(counts, Head(ccs)))

summarize_by_country(snapshot) ==
    [total |-> IF snapshot.total_nodes = <<>> \/ snapshot.total_nodes[1] = 0
               THEN Len(snapshot.nodes)
               ELSE snapshot.total_nodes[1],
     by_cc |-> CountCodes(snapshot.nodes, <<>>)]

pct_change(old, new) ==
    IF old = 0
    THEN [inf |-> new > 0, num |-> 0, den |-> 1]
    ELSE [inf |-> FALSE, num |-> (new - old) * 100, den |-> old]

\* sorted(items, key=count, reverse=True): stable, equal counts keep their order
RECURSIVE InsertDesc(_, _)
InsertDesc(s, x) ==
    IF s = <<>> THEN <<x>>
    ELSE IF Head(s).n >= x.n THEN <<Head(s)>> \o InsertDesc(Tail(s), x)
    ELSE <<x>> \o s

RECURSIVE SortedDesc(_)
SortedDesc(items) ==
    IF items = <<>> THEN <<>>
    ELSE InsertDesc(SortedDesc(SubSeq(items, 1, Len(items) - 1)), items[Len(items)])

\* A line of the report: label, count, a marker and an optional suffix
\* "(sign delta, pct%)".  pct is the quotient num/den, printed with two decimals.
line_for(code, count_now, count_prev) ==
    LET delta == count_now - count_prev
        p     == pct_change(count_prev, count_now)
    IN  [label  |-> human_country(code),
         count  |-> count_now,
         marker |-> "",
         suffix |-> <<[sign  |-> IF delta >= 0 THEN "+" ELSE "",
                       delta |-> delta,
                       num   |-> IF p.inf THEN 100 ELSE p.num,
                       den   |-> p.den]>>]

total_line(total_now, total_prev) ==
    IF total_prev # 0
    THEN LET delta == total_now - total_prev
             p     == pct_change(total_prev, total_now)
         IN  [label  |-> "Total", count |-> total_now, marker |-> "",
              suffix |-> <<[sign  |-> IF delta >= 0 THEN "+" ELSE "",
                            delta |-> delta, num |-> p.num, den |-> p.den]>>]
    ELSE [label |-> "Total", count |-> total_now, marker |-> "first run",
          suffix |-> <<>>]

format_report(ts_utc, total_now, total_prev, by_country_now, by_country_prev, topn) ==
    LET items        == SortedDesc(by_country_now)
        k            == Min(topn, Len(items))
        top_items    == SubSeq(items, 1, k)
        others_count == SumN(SubSeq(items, k + 1, Len(items)))
        others_prev  == SumN(SelectSeq(by_country_prev,
                                       LAMBDA e : e.code \notin Keys(top_items)))
    IN  [header |-> ts_utc,
         total  |-> total_line(total_now, total_prev),
         lines  |-> [i \in 1..k |->
                        line_for(top_items[i].code, top_items[i].n,
                                 Get(by_country_prev, top_items[i].code, 0))]
                    \o (IF others_count # 0
                        THEN <<line_for("Others", others_count, others_prev)>>
                        ELSE <<>>)]

----------------------------------------------------------------------------
\* bot_once.py: the state file last_data.json.

OnceAbsent  == [k |-> "absent",  total |-> 0, countries |-> <<>>]
OnceGarbage == [k |-> "garbage", total |-> 0, countries |-> <<>>]

----------------------------------------------------------------------------
\* bot.py: what the environment can hand to the process.

\* The country codes (arr[7]) of the nodes of a fetched snapshot: no node, or
\* one node with a code or with None.
NodeInputs == {<<>>, <<"US">>, <<"DE">>, <<None>>}

\* What fetch_latest_snapshot can return: the parsed body.  nodes_ok is FALSE
\* for a body whose "nodes" is no mapping of records with a hashable country
\* code (summarize_by_country raises on it); ts_ok is FALSE for a timestamp
\* that datetime.fromtimestamp rejects.
Snapshots ==
    {[nodes_ok |-> TRUE, ts_ok |-> TRUE, timestamp |-> <<SnapshotTs>>,
      total_nodes |-> <<>>, nodes |-> ns] : ns \in NodeInputs}
    \cup {[nodes_ok |-> TRUE, ts_ok |-> TRUE, timestamp |-> <<SnapshotTs>>,
           total_nodes |-> <<DeclaredTotal>>, nodes |-> <<"US">>],
          [nodes_ok |-> TRUE, ts_ok |-> TRUE, timestamp |-> <<>>,
           total_nodes |-> <<>>, nodes |-> <<"DE">>],
          [nodes_ok |-> FALSE, ts_ok |-> TRUE, timestamp |-> <<>>,
           total_nodes |-> <<>>, nodes |-> <<>>],
          [nodes_ok |-> TRUE, ts_ok |-> FALSE, timestamp |-> <<SnapshotTs>>,
           total_nodes |-> <<>>, nodes |-> <<"US">>]}

\* state.json before the process first starts: missing, not JSON, JSON that is
\* no object ([]), or an object written by an earlier run ({}).
InitialFiles == {Absent, Garbage, json_dump(ListState), json_dump(EmptyState)}

\* The instants at which the model samples the wall clock: each multiple of
\* the report interval, and one sleep later.
TimePoints ==
    {k * (interval * 60) + d : k \in 0..MaxIntervals, d \in {0, SleepSecs}}

----------------------------------------------------------------------------
\* bot.py: main.

locals  == <<snap, cur, prev, report>>
env     == <<file, tmp, clock, restarts>>
hist    == <<sent, outcome, last_outcome, cycle_file, cycle_state, sig_at>>
idle    == <<reportVars, chunkVars, onceVars>>

Running == pc \notin {"done", "killed"}

\* The positions inside the try block of a cycle (lines 140-156).
SavePcs  == {"save_open", "save_write", "save_replace"}
CyclePcs == {"fetch", "summarize", "baseline", "format", "send", "update", "except",
             "advance"} \cup SavePcs

\* Variant: an exception leaves main, and the process ends.
HandlerUncaught == "done"

\* An exception raised inside the try block of main goes to its except clause.
Handler == "except"

Raise ==
    /\ pc' = Handler
    /\ UNCHANGED <<should_stop, state, now, next_run, locals, env, hist, idle>>

\* line 133: state = load_state(); line 135: next_run = 0
Load ==
    /\ pc = "load"
    /\ state' = load_state(file)
    /\ next_run' = 0
    /\ pc' = "while"
    /\ UNCHANGED <<should_stop, now, locals, env, hist, idle>>

\* Variant: the loop never reads the flag (while True).
LoopCondAlways == TRUE

\* line 136: while not _should_stop  (line 159 and the return when it fails)
LoopCond == ~should_stop

While ==
    /\ pc = "while"
    /\ pc' = IF LoopCond THEN "timecheck" ELSE "done"
    /\ UNCHANGED <<should_stop, state, now, next_run, locals, env, hist, idle>>

\* lines 137-138: now = time.time(); if now >= next_run
Due(t, nr) == t >= nr

TimeCheck ==
    /\ pc = "timecheck"
    /\ now' = clock
    /\ IF Due(clock, next_run)
       THEN /\ pc' = "fetch"
            /\ sent' = FALSE
            /\ last_outcome' = outcome
            /\ outcome' = "running"
            /\ cycle_file' = file
            /\ cycle_state' = state
       ELSE /\ pc' = "sleep"
            /\ UNCHANGED <<sent, outcome, last_outcome, cycle_file, cycle_state>>
    /\ UNCHANGED <<should_stop, state, next_run, locals, env, sig_at, idle>>

\* line 140: snap = fetch_latest_snapshot()
Fetch ==
    /\ pc = "fetch"
    /\ \E s \in Snapshots : snap' = <<s>>
    /\ pc' = "summarize"
    /\ UNCHANGED <<should_stop, state, now, next_run, cur, prev, report, env, hist, idle>>

\* line 140: requests.get or raise_for_status or r.json() raises
FetchFail ==
    /\ pc = "fetch"
    /\ Raise

\* lines 141-142: ts = int(snap.get("timestamp", int(now)));
\*                total_now, by_cc_now = summarize_by_country(snap)
Summarize ==
    /\ pc = "summarize"
    /\ IF snap[1].nodes_ok
       THEN LET a == summarize_by_country(snap[1])
            IN  /\ cur' = <<[ts    |-> IF snap[1].timestamp = <<>> THEN now
                                      ELSE snap[1].timestamp[1],
                             total |-> a.total,
                             by_cc |-> a.by_cc]>>
                /\ pc' = "baseline"
                /\ UNCHANGED <<should_stop, state, now, next_run, snap, prev, report,
                               env, hist, idle>>
       ELSE Raise

\* lines 143-145: prev_entry = state.get("last") or {};
\* total_prev = int(prev_entry.get("total", 0)); by_cc_prev = prev_entry.get("by_cc", {})
baseline(last) ==
    IF last = <<>>
    THEN [total |-> 0, by_cc |-> <<>>]
    ELSE [total |-> last[1].total, by_cc |-> last[1].by_cc]

\* lines 143-145 in main
\* (a `state` that is no dict has no .get: AttributeError)
Baseline ==
    /\ pc = "baseline"
    /\ IF state.t = "dict"
       THEN /\ prev' = <<baseline(state.last)>>
            /\ pc' = "format"
            /\ UNCHANGED <<should_stop, state, now, next_run, snap, cur, report,
                           env, hist, idle>>
       ELSE Raise

\* line 146: report = format_report(...)  (line 87 raises on a timestamp out of range)
Format ==
    /\ pc = "format"
    /\ IF snap[1].ts_ok
       THEN /\ report' = <<format_report(cur[1].ts, cur[1].total, prev[1].total,
                                         cur[1].by_cc, prev[1].by_cc, top_n)>>
            /\ pc' = "send"
            /\ UNCHANGED <<should_stop, state, now, next_run, snap, cur, prev,
                           env, hist, idle>>
       ELSE Raise

\* line 147: send_telegram returns
Send ==
    /\ pc = "send"
    /\ sent' = TRUE
    /\ pc' = "update"
    /\ UNCHANGED <<should_stop, state, now, next_run, locals, env, outcome,
                   last_outcome, cycle_file, cycle_state, sig_at, idle>>

\* Variant: a failed delivery is not raised (no raise_for_status, as in
\* bot_once.py), so main goes on to lines 148-153.
SendFailSwallowed ==
    /\ pc = "send"
    /\ pc' = "update"
    /\ UNCHANGED <<should_stop, state, now, next_run, locals, env, hist, idle>>

\* line 147: requests.post or raise_for_status raises
SendFail ==
    /\ pc = "send"
    /\ Raise

\* lines 148-152: state["last"] = {"ts": ts, "total": total_now, "by_cc": by_cc_now}
Update ==
    /\ pc = "update"
    /\ state' = [state EXCEPT !.last = <<cur[1]>>]
    /\ pc' = "save_open"
    /\ UNCHANGED <<should_stop, now, next_run, locals, env, hist, idle>>

\* Variant: the document is written straight into state.json (as save_state of
\* bot_once.py does).
SaveTargetDirect == "file"

\* The file save_state writes the document to, before it is renamed.
SaveTarget == "tmp"

\* lines 53-54: open(tmp, "w") creates or truncates the file
SaveOpen ==
    /\ pc = "save_open"
    /\ IF SaveTarget = "tmp"
       THEN tmp' = Partial /\ UNCHANGED file
       ELSE file' = Partial /\ UNCHANGED tmp
    /\ pc' = "save_write"
    /\ UNCHANGED <<should_stop, state, now, next_run, locals, clock, restarts, sent,
                   outcome, last_outcome, cycle_file, cycle_state, sig_at, idle>>

\* line 54: open raises OSError
SaveOpenFail ==
    /\ pc = "save_open"
    /\ Raise

\* line 55: json.dump(state, f) and the close of the with block
SaveWrite ==
    /\ pc = "save_write"
    /\ IF SaveTarget = "tmp"
       THEN tmp' = json_dump(state) /\ UNCHANGED file
       ELSE file' = json_dump(state) /\ UNCHANGED tmp
    /\ pc' = "save_replace"
    /\ UNCHANGED <<should_stop, state, now, next_run, locals, clock, restarts,
                   hist, idle>>

\* line 55: a write raises OSError; what was written stays in the file
SaveWriteFail ==
    /\ pc = "save_write"
    /\ Raise

\* line 56: os.replace(tmp, STATE_FILE); line 154: print
SaveReplace ==
    /\ pc = "save_replace"
    /\ IF SaveTarget = "tmp"
       THEN file' = tmp /\ tmp' = Absent
       ELSE UNCHANGED <<file, tmp>>
    /\ outcome' = "ok"
    /\ pc' = "advance"
    /\ UNCHANGED <<should_stop, state, now, next_run, locals, clock, restarts, sent,
                   last_outcome, cycle_file, cycle_state, sig_at, idle>>

\* line 56: os.replace raises OSError
SaveReplaceFail ==
    /\ pc = "save_replace"
    /\ Raise

\* lines 155-156: except Exception as e: print
Except ==
    /\ pc = "except"
    /\ outcome' = "failed"
    /\ pc' = "advance"
    /\ UNCHANGED <<should_stop, state, now, next_run, locals, env, sent, last_outcome,
                   cycle_file, cycle_state, sig_at, idle>>

\* line 157: next_run = now + interval * 60
NextRun(t) == t + interval * 60

\* The locals of the cycle are dead after line 157: each is assigned again
\* before it is read, so they are cleared here.
Advance ==
    /\ pc = "advance"
    /\ next_run' = NextRun(now)
    /\ now' = 0
    /\ snap' = <<>> /\ cur' = <<>> /\ prev' = <<>> /\ report' = <<>>
    /\ pc' = "sleep"
    /\ UNCHANGED <<should_stop, state, env, hist, idle>>

\* line 158: time.sleep(2) returns after 2 seconds or more; at the end of the
\* modelled time the clock stands still.
Sleep ==
    /\ pc = "sleep"
    /\ LET later == {t \in TimePoints : t >= clock + SleepSecs}
       IN  IF later = {} THEN clock' = clock ELSE clock' \in later
    /\ pc' = "while"
    /\ UNCHANGED <<should_stop, state, now, next_run, locals, file, tmp, restarts,
                   hist, idle>>

\* lines 36-41: SIGINT or SIGTERM runs _handle_sig between two steps of main
HandleSig ==
    /\ Running
    /\ ~should_stop
    /\ should_stop' = TRUE
    /\ sig_at' = IF pc \in CyclePcs THEN "cycle"
                 ELSE IF pc = "timecheck" THEN "test" ELSE "idle"
    /\ UNCHANGED <<pc, state, now, next_run, locals, env, sent, outcome, last_outcome,
                   cycle_file, cycle_state, idle>>

\* The process is killed (SIGKILL) at any step; files stay as they are.
Kill ==
    /\ Running
    /\ restarts < MaxRestarts
    /\ pc' = "killed"
    /\ UNCHANGED <<should_stop, state, now, next_run, locals, env, hist, idle>>

\* The bot is started again: a new process, the same files.
Restart ==
    /\ pc = "killed"
    /\ pc' = "load"
    /\ restarts' = restarts + 1
    /\ should_stop' = FALSE
    /\ state' = EmptyState
    /\ now' = 0 /\ next_run' = 0
    /\ snap' = <<>> /\ cur' = <<>> /\ prev' = <<>> /\ report' = <<>>
    /\ sent' = FALSE /\ outcome' = "none" /\ last_outcome' = "none"
    /\ cycle_file' = file /\ cycle_state' = EmptyState /\ sig_at' = "none"
    /\ UNCHANGED <<file, tmp, clock, idle>>

MainStep ==
    \/ Load \/ While \/ TimeCheck \/ Fetch \/ FetchFail \/ Summarize \/ Baseline
    \/ Format \/ Send \/ SendFail \/ Update \/ SaveOpen \/ SaveOpenFail
    \/ SaveWrite \/ SaveWriteFail \/ SaveReplace \/ SaveReplaceFail \/ Except
    \/ Advance \/ Sleep

IdleReport == /\ r_pc = "idle" /\ r_in = <<>> /\ r_agg = <<>> /\ r_prev = <<>>
              /\ r_report = <<>>
IdleChunk  == /\ c_pc = "idle" /\ c_text = <<>> /\ c_chunk_size = 0 /\ c_lines = <<>>
              /\ c_i = 0 /\ c_chunk = <<>> /\ c_size = 0 /\ c_sent = <<>>
IdleOnce   == /\ o_pc = "idle" /\ o_file = OnceAbsent /\ o_nodes = <<>> /\ o_agg = <<>>
              /\ o_prev = <<>> /\ o_olds = <<>> /\ o_saved_agg = <<>> /\ o_runs = 0
IdleBot    == /\ pc = "idle" /\ should_stop = FALSE /\ state = EmptyState /\ now = 0
              /\ next_run = 0 /\ snap = <<>> /\ cur = <<>> /\ prev = <<>>
              /\ report = <<>> /\ file = Absent /\ tmp = Absent /\ clock = 0
              /\ restarts = 0 /\ sent = FALSE /\ outcome = "none"
              /\ last_outcome = "none" /\ cycle_file = Absent
              /\ cycle_state = EmptyState /\ sig_at = "none"

\* bot.py started with both credentials set (lines 126-130 passed), at line 133.
Init ==
    /\ pc = "load"
    /\ should_stop = FALSE
    /\ state = EmptyState
    /\ now = 0 /\ next_run = 0
    /\ snap = <<>> /\ cur = <<>> /\ prev = <<>> /\ report = <<>>
    /\ file \in InitialFiles
    /\ tmp = Absent
    /\ clock = 0
    /\ restarts = 0
    /\ sent = FALSE /\ outcome = "none" /\ last_outcome = "none"
    /\ cycle_file = file /\ cycle_state = EmptyState /\ sig_at = "none"
    /\ IdleReport /\ IdleChunk /\ IdleOnce

Next == MainStep \/ HandleSig \/ Kill \/ Restart

Spec == Init /\ [][Next]_vars

\* The same process without kills, scheduled fairly: the main thread always
\* takes its next step (every network call has a timeout, the sleep returns).
NextLive == MainStep \/ HandleSig

SpecLive == Init /\ [][NextLive]_vars /\ WF_vars(MainStep)

----------------------------------------------------------------------------
\* bot.py: summarize_by_country and format_report on drawn inputs.  The inputs
\* are those of a cycle of main: a snapshot, the "last" entry of `state` (none,
\* or the aggregation of an earlier snapshot), and top_n.

ReportCCValues == {"US", "DE", "ZZ", None}

ReportNodeLists(n) == UNION {[1..m -> ReportCCValues] : m \in 0..n}

ReportSnapshots(n) ==
    {[nodes_ok |-> TRUE, ts_ok |-> TRUE, timestamp |-> <<SnapshotTs>>,
      total_nodes |-> d, nodes |-> ns] :
        d \in {<<>>, <<0>>, <<DeclaredTotal>>}, ns \in ReportNodeLists(n)}

EntryOf(snapshot) ==
    [ts    |-> snapshot.timestamp[1],
     total |-> summarize_by_country(snapshot).total,
     by_cc |-> summarize_by_country(snapshot).by_cc]

ReportInputs ==
    {[snapshot |-> sn, last |-> l, topn |-> t] :
        sn \in ReportSnapshots(MaxReportNodes),
        l \in {<<>>} \cup {<<EntryOf(p)>> : p \in ReportSnapshots(MaxPrevNodes)},
        t \in 0..MaxTopN}

InitReport ==
    /\ r_pc = "summarize"
    /\ r_in \in ReportInputs
    /\ r_agg = <<>> /\ r_prev = <<>> /\ r_report = <<>>
    /\ IdleBot /\ IdleChunk /\ IdleOnce

\* line 142
ReportSummarize ==
    /\ r_pc = "summarize"
    /\ r_agg' = <<summarize_by_country(r_in.snapshot)>>
    /\ r_pc' = "baseline"
    /\ UNCHANGED <<r_in, r_prev, r_report, botVars, chunkVars, onceVars>>

\* lines 143-145
ReportBaseline ==
    /\ r_pc = "baseline"
    /\ r_prev' = <<baseline(r_in.last)>>
    /\ r_pc' = "format"
    /\ UNCHANGED <<r_in, r_agg, r_report, botVars, chunkVars, onceVars>>

\* line 146
ReportFormat ==
    /\ r_pc = "format"
    /\ r_report' = <<format_report(r_in.snapshot.timestamp[1], r_agg[1].total,
                                   r_prev[1].total, r_agg[1].by_cc, r_prev[1].by_cc,
                                   r_in.topn)>>
    /\ r_pc' = "done"
    /\ UNCHANGED <<r_in, r_agg, r_prev, botVars, chunkVars, onceVars>>

NextReport == ReportSummarize \/ ReportBaseline \/ ReportFormat

SpecReport == InitReport /\ [][NextReport]_vars

RECURSIVE SumCounts(_)
SumCounts(ls) == IF ls = <<>> THEN 0 ELSE Head(ls).count + SumCounts(Tail(ls))

\* C6 (as claimed): the counts on the top-N country lines and on the Others
\* line add up to the count on the Total line.
C6_LinesAddUpToTotal ==
    r_pc = "done" => SumCounts(r_report[1].lines) = r_report[1].total.count

\* C7 (as claimed): without a previous baseline the Total line carries the
\* "first run" marker and no country line and no Others line has a delta or
\* percentage suffix.
C7_FirstRunHasNoDeltas ==
    (r_pc = "done" /\ r_in.last = <<>>) =>
        /\ r_report[1].total.marker = "first run"
        /\ r_report[1].total.suffix = <<>>
        /\ \A i \in 1..Len(r_report[1].lines) : r_report[1].lines[i].suffix = <<>>

----------------------------------------------------------------------------
\* bot_once.py: send_chunked.  A text is a sequence of characters; "LF" is the
\* newline character, "CR" a carriage return, "a" any other character.

LF == "LF"
CR == "CR"
Chars == {"a", LF, CR}

Texts == UNION {[1..n -> Chars] : n \in 0..MaxTextLen}

\* str.splitlines(): a line ends at "\n", "\r" or "\r\n"; the text after the
\* last line break is a line only if it is not empty.
RECURSIVE Split(_, _)
Split(t, line) ==
    IF t = <<>> THEN (IF line = <<>> THEN <<>> ELSE <<line>>)
    ELSE IF Head(t) = LF THEN <<line>> \o Split(Tail(t), <<>>)
    ELSE IF Head(t) = CR
         THEN IF Len(t) >= 2 /\ t[2] = LF
              THEN <<line>> \o Split(Tail(Tail(t)), <<>>)
              ELSE <<line>> \o Split(Tail(t), <<>>)
    ELSE Split(Tail(t), Append(line, Head(t)))

splitlines(t) == Split(t, <<>>)

\* "\n".join(lines)
RECURSIVE join(_)
join(ls) ==
    IF ls = <<>> THEN <<>>
    ELSE IF Len(ls) = 1 THEN ls[1]
    ELSE ls[1] \o <<LF>> \o join(Tail(ls))

\* Variant: the size of the line to add is left out of the test.
ShouldFlushLate(size, add, chunk_size, chunk) == size > chunk_size /\ chunk # <<>>

\* line 72: if size + add > chunk_size and chunk
ShouldFlush(size, add, chunk_size, chunk) == size + add > chunk_size /\ chunk # <<>>

\* What send_telegram is called with: the text, and the lines it was joined from.
Sent(chunk) == [text |-> join(chunk), lines |-> chunk]

InitChunk ==
    /\ c_pc = "split"
    /\ c_text \in Texts
    /\ c_chunk_size \in 1..MaxChunkSize
    /\ c_lines = <<>> /\ c_i = 0 /\ c_chunk = <<>> /\ c_size = 0 /\ c_sent = <<>>
    /\ IdleBot /\ IdleReport /\ IdleOnce

\* line 69: lines, chunk, size = text.splitlines(), [], 0
ChunkSplit ==
    /\ c_pc = "split"
    /\ c_lines' = splitlines(c_text)
    /\ c_chunk' = <<>> /\ c_size' = 0 /\ c_i' = 1
    /\ c_pc' = "loop"
    /\ UNCHANGED <<c_text, c_chunk_size, c_sent, botVars, reportVars, onceVars>>

\* lines 70-76: one pass of the for loop
ChunkLine ==
    /\ c_pc = "loop"
    /\ c_i <= Len(c_lines)
    /\ LET line == c_lines[c_i]
           add  == Len(line) + 1
       IN  IF ShouldFlush(c_size, add, c_chunk_size, c_chunk)
           THEN /\ c_sent' = Append(c_sent, Sent(c_chunk))
                /\ c_chunk' = <<line>>
                /\ c_size' = add
           ELSE /\ c_chunk' = Append(c_chunk, line)
                /\ c_size' = c_size + add
                /\ UNCHANGED c_sent
    /\ c_i' = c_i + 1
    /\ UNCHANGED <<c_pc, c_text, c_chunk_size, c_lines, botVars, reportVars, onceVars>>

\* lines 77-78: if chunk: send_telegram("\n".join(chunk))
ChunkRest ==
    /\ c_pc = "loop"
    /\ c_i > Len(c_lines)
    /\ c_sent' = IF c_chunk # <<>> THEN Append(c_sent, Sent(c_chunk)) ELSE c_sent
    /\ c_pc' = "done"
    /\ UNCHANGED <<c_text, c_chunk_size, c_lines, c_i, c_chunk, c_size,
                   botVars, reportVars, onceVars>>

\* lines 73 and 78: requests.post raises inside send_telegram (line 65), and
\* the exception leaves send_chunked
ChunkSendRaises ==
    /\ c_pc = "loop"
    /\ \/ /\ c_i <= Len(c_lines)
          /\ ShouldFlush(c_size, Len(c_lines[c_i]) + 1, c_chunk_size, c_chunk)
       \/ /\ c_i > Len(c_lines)
          /\ c_chunk # <<>>
    /\ c_pc' = "raised"
    /\ UNCHANGED <<c_text, c_chunk_size, c_lines, c_i, c_chunk, c_size, c_sent,
                   botVars, reportVars, onceVars>>

NextChunk == ChunkSplit \/ ChunkLine \/ ChunkRest \/ ChunkSendRaises

SpecChunk == InitChunk /\ [][NextChunk]_vars

RECURSIVE AllLines(_)
AllLines(calls) ==
    IF calls = <<>> THEN <<>> ELSE Head(calls).lines \o AllLines(Tail(calls))

SentTexts == [i \in 1..Len(c_sent) |-> c_sent[i].text]

\* What the claim says of a finished call.
ChunkedRight ==
    /\ Len(c_sent) >= 2
    /\ \A i \in 1..Len(c_sent) : Len(c_sent[i].text) <= c_chunk_size
    /\ AllLines(c_sent) = splitlines(c_text)
    /\ join(SentTexts) = c_text

\* C5 (as claimed): for every text longer than chunk_size, send_chunked makes
\* at least two calls, in the order of the lines, each chunk at most
\* chunk_size long and made of whole lines, and the chunks joined by a newline
\* are the text.
C5_ChunksEveryLongText ==
    (c_pc = "done" /\ Len(c_text) > c_chunk_size) => ChunkedRight

\* The texts for which the claim holds: the text is its own lines joined by a
\* newline (no other line break, none at the end), and no line is longer
\* than chunk_size.
Chunkable ==
    /\ join(splitlines(c_text)) = c_text
    /\ \A i \in 1..Len(splitlines(c_text)) : Len(splitlines(c_text)[i]) <= c_chunk_size

\* C5 (amended): for every text longer than chunk_size that is its lines
\* joined by a newline and has no line longer than chunk_size, a call of
\* send_chunked in which every send_telegram returns makes at least two calls,
\* in the order of the lines, each chunk at most chunk_size long and made of
\* whole lines, and the chunks joined by a newline are the text.
C5_ChunksLongTextOfShortLines ==
    (c_pc = "done" /\ Len(c_text) > c_chunk_size /\ Chunkable) => ChunkedRight

\* C5 witness: a finished call on such a text that sent a chunk of two lines.
C5_Witness ==
    /\ c_pc = "done" /\ Len(c_text) > c_chunk_size /\ Chunkable
    /\ Len(c_sent) >= 2
    /\ \E i \in 1..Len(c_sent) : Len(c_sent[i].lines) >= 2

----------------------------------------------------------------------------
\* bot_once.py: consecutive runs of main, each a process of its own, sharing
\* last_data.json.

\* What arr[7] of a node record can be: a country code, the string "null",
\* the empty string, or None.
OnceCCValues == {"US", "null", "", None}

OnceNodeLists == UNION {[1..m -> OnceCCValues] : m \in 0..MaxOnceNodes}

\* line 34: key = code if code else None
BucketKey(code) == IF code = "" \/ code = None THEN None ELSE code

\* lines 29-36
RECURSIVE OnceCount(_, _)
OnceCount(ccs, counts) ==
    IF ccs = <<>> THEN counts
    ELSE OnceCount(Tail(ccs), Incr(counts, BucketKey(Head(ccs))))

once_summarize_by_country(nodes) == OnceCount(nodes, <<>>)

\* lines 47-49: json.dump of {"total": ..., "countries": ...}
once_json_dump(total, countries) ==
    [k |-> "json", total |-> total, countries |-> countries]

\* lines 38-45: the document, or None (here <<>>)
once_load_state(f) == IF f.k = "json" THEN <<f>> ELSE <<>>

\* line 114: k if k is not None else "null"
NormalizeKey(key) == IF key # None THEN key ELSE "null"

\* d[key] = v: a new key goes last, an old one keeps its place
Put(d, key, v) ==
    IF \E i \in 1..Len(d) : d[i].code = key
    THEN LET i == CHOOSE j \in 1..Len(d) : d[j].code = key
         IN  [d EXCEPT ![i].n = v]
    ELSE Append(d, [code |-> key, n |-> v])

\* line 114: the dict comprehension
RECURSIVE Normalized(_, _)
Normalized(items, acc) ==
    IF items = <<>> THEN acc
    ELSE Normalized(Tail(items), Put(acc, NormalizeKey(Head(items).code), Head(items).n))

\* Variant: the previous count is looked up under the bucket's own key.
LookupKeyRaw(code) == code

\* line 104: code if code else "null"
LookupKey(code) == IF code # None /\ code # "" THEN code ELSE "null"

\* prev_countries.get(key): the count, or None (here <<>>)
GetOpt(d, key) == IF key \in Keys(d) THEN <<Get(d, key, 0)>> ELSE <<>>

InitOnce ==
    /\ o_pc = "start"
    /\ o_file \in {OnceAbsent, OnceGarbage}
    /\ o_nodes = <<>> /\ o_agg = <<>> /\ o_prev = <<>> /\ o_olds = <<>>
    /\ o_saved_agg = <<>>
    /\ o_runs = 1
    /\ IdleBot /\ IdleReport /\ IdleChunk

\* lines 87-90: data = fetch_latest(); by_country = summarize_by_country(nodes)
OnceFetch ==
    /\ o_pc = "start"
    /\ \E ns \in OnceNodeLists :
          /\ o_nodes' = ns
          /\ o_agg' = once_summarize_by_country(ns)
    /\ o_pc' = "load"
    /\ UNCHANGED <<o_file, o_prev, o_olds, o_saved_agg, o_runs,
                   botVars, reportVars, chunkVars>>

\* line 87: fetch_latest raises and the process ends
OnceFetchFail ==
    /\ o_pc = "start"
    /\ o_pc' = "exited"
    /\ UNCHANGED <<o_file, o_nodes, o_agg, o_prev, o_olds, o_saved_agg, o_runs,
                   botVars, reportVars, chunkVars>>

\* lines 92-94: prev = load_state() or {}; prev_total; prev_countries
OnceLoad ==
    /\ o_pc = "load"
    /\ LET loaded == once_load_state(o_file)
       IN  o_prev' = IF loaded = <<>>
                     THEN [total |-> <<>>, countries |-> <<>>]
                     ELSE [total |-> <<loaded[1].total>>,
                           countries |-> loaded[1].countries]
    /\ o_pc' = "build"
    /\ UNCHANGED <<o_file, o_nodes, o_agg, o_olds, o_saved_agg, o_runs,
                   botVars, reportVars, chunkVars>>

\* lines 101-105: the buckets by count, each with its previous count
OnceBuild ==
    /\ o_pc = "build"
    /\ o_olds' = LET items == SortedDesc(o_agg)
                 IN  [i \in 1..Len(items) |->
                        [code |-> items[i].code, n |-> items[i].n,
                         old  |-> GetOpt(o_prev.countries, LookupKey(items[i].code))]]
    /\ o_pc' = "send"
    /\ UNCHANGED <<o_file, o_nodes, o_agg, o_prev, o_saved_agg, o_runs,
                   botVars, reportVars, chunkVars>>

\* line 111: send_chunked(message) returns
OnceSend ==
    /\ o_pc = "send"
    /\ o_pc' = "save"
    /\ UNCHANGED <<o_file, o_nodes, o_agg, o_prev, o_olds, o_saved_agg, o_runs,
                   botVars, reportVars, chunkVars>>

\* line 111: requests.post raises and the process ends before the save
OnceSendFail ==
    /\ o_pc = "send"
    /\ o_pc' = "exited"
    /\ UNCHANGED <<o_file, o_nodes, o_agg, o_prev, o_olds, o_saved_agg, o_runs,
                   botVars, reportVars, chunkVars>>

\* lines 114-115: normalized = {...}; save_state({"total": total, "countries": normalized})
OnceSave ==
    /\ o_pc = "save"
    /\ o_file' = once_json_dump(Len(o_nodes), Normalized(o_agg, <<>>))
    /\ o_saved_agg' = o_agg
    /\ o_pc' = "exited"
    /\ UNCHANGED <<o_nodes, o_agg, o_prev, o_olds, o_runs,
                   botVars, reportVars, chunkVars>>

\* The next run: a new process.
OnceStart ==
    /\ o_pc = "exited"
    /\ o_runs < MaxOnceRuns
    /\ o_runs' = o_runs + 1
    /\ o_nodes' = <<>> /\ o_agg' = <<>> /\ o_olds' = <<>>
    /\ o_prev' = <<>>
    /\ o_pc' = "start"
    /\ UNCHANGED <<o_file, o_saved_agg, botVars, reportVars, chunkVars>>

NextOnce ==
    \/ OnceFetch \/ OnceFetchFail \/ OnceLoad \/ OnceBuild \/ OnceSend
    \/ OnceSendFail \/ OnceSave \/ OnceStart

SpecOnce == InitOnce /\ [][NextOnce]_vars

\* The state one run saved, as the next run reads it: the file holds one
\* count per bucket of the saved aggregation, each under its key, and each
\* bucket of the running aggregation got as its previous count the saved
\* count of that same bucket, or none if the saved aggregation has no such
\* bucket.
RoundTrips ==
    /\ Len(o_prev.countries) = Len(o_saved_agg)
    /\ \A i \in 1..Len(o_saved_agg) :
          GetOpt(o_prev.countries, NormalizeKey(o_saved_agg[i].code))
              = <<o_saved_agg[i].n>>
    /\ \A i \in 1..Len(o_olds) :
          o_olds[i].old = GetOpt(o_saved_agg, o_olds[i].code)

\* C8 (as claimed): for every aggregation, unknown bucket included, the state
\* saved by one run is read back by the next as an equal structure, every
\* bucket's count as the previous count of that bucket and of no other.
C8_StateRoundTrips ==
    (o_pc \in {"send", "save"} /\ o_file.k = "json") => RoundTrips

\* C8 (amended): the same, for aggregations in which no country code is the
\* string "null".
C8_StateRoundTripsWithoutNullCode ==
    (/\ o_pc \in {"send", "save"} /\ o_file.k = "json"
     /\ "null" \notin Keys(o_saved_agg) /\ "null" \notin Keys(o_agg)) => RoundTrips

\* C8 witness: both runs have an unknown bucket and a "US" bucket, with
\* different counts, and the second run has looked up its previous counts.
C8_Witness ==
    /\ o_pc = "save" /\ o_file.k = "json"
    /\ "null" \notin Keys(o_saved_agg) /\ "null" \notin Keys(o_agg)
    /\ {None, "US"} \subseteq Keys(o_saved_agg) /\ {None, "US"} \subseteq Keys(o_agg)
    /\ Get(o_saved_agg, None, 0) # Get(o_saved_agg, "US", 0)
    /\ RoundTrips

----------------------------------------------------------------------------
\* Properties of the main loop of bot.py.

Malformed(f) == f.k \in {"absent", "garbage", "partial"} \/ (f.k = "json" /\ f.v.t # "dict")

\* C1: state is persisted only after a successful delivery.  save_state runs
\* only in a cycle whose send_telegram has returned, and a cycle that fails
\* before or in the delivery leaves state.json exactly as it was when the cycle
\* started.
C1_SaveOnlyAfterDelivery ==
    /\ pc \in SavePcs => sent
    /\ file # cycle_file => sent
    /\ (outcome = "failed" /\ ~sent) => file = cycle_file

\* C1 witness: a cycle failed in send_telegram while state.json held a baseline.
C1_Witness ==
    /\ pc = "advance" /\ outcome = "failed" /\ ~sent /\ report # <<>>
    /\ file.k = "json" /\ file.v.last # <<>>
    /\ file = cycle_file

\* C2: save_state is atomic.  At every step, also after the process is killed
\* anywhere in a save, state.json holds the complete document it held when the
\* cycle started or the complete new one, never a partly written one, and
\* load_state returns one of those two states from it.
C2_AtomicSave ==
    /\ file.k # "partial"
    /\ file \in {cycle_file, json_dump(state)}
    /\ pc = "killed" => load_state(file) \in {load_state(cycle_file), state}

\* C2 witness: the process was killed while the new document was partly
\* written; state.json still holds the earlier baseline.
C2_Witness ==
    /\ pc = "killed" /\ sent /\ tmp = Partial
    /\ file.k = "json" /\ file.v.last # <<>>
    /\ file.v # state

\* The parts of C3.  An error at any step of a cycle is caught and the cycle
\* abandoned: main ends only through the shutdown flag, line 157 sets next_run to
\* now + interval * 60 after a successful and after a failed cycle alike, a
\* cycle that is due starts whatever the outcome of the one before, and a
\* failed cycle leaves `state` as it was at its start (failure up to the
\* delivery) or as a successful cycle leaves it (failure in the save).
C3_EndsOnlyByShutdown ==
    [][pc' = "done" => (pc = "done" \/ (pc = "while" /\ should_stop))]_vars

C3_NextRunAdvanced ==
    [][(pc = "advance" /\ pc' = "sleep")
         => (outcome \in {"ok", "failed"} /\ next_run' = now + interval * 60)]_vars

C3_DueCycleStarts ==
    [][(pc = "timecheck" /\ clock >= next_run /\ pc' \notin {"timecheck", "killed"})
         => (pc' = "fetch" /\ outcome' = "running")]_vars

C3_FailureLeavesNoTrace ==
    [](outcome = "failed" =>
         /\ ~sent => state = cycle_state
         /\ sent => (pc \in CyclePcs =>
                       state = [cycle_state EXCEPT !.last = <<cur[1]>>]))

\* C3: the four parts together: errors are caught, next_run is advanced
\* either way, the next due cycle starts, and it starts from a state no
\* failure has marked.
C3_ErrorsCaught ==
    /\ C3_EndsOnlyByShutdown
    /\ C3_NextRunAdvanced
    /\ C3_DueCycleStarts
    /\ C3_FailureLeavesNoTrace

\* C3 witness: a cycle ran to its end (report delivered, state saved) right
\* after a failed one.
C3_Witness ==
    /\ pc = "advance" /\ outcome = "ok" /\ last_outcome = "failed" /\ restarts = 0

\* C4 (as claimed): load_state returns the "no baseline" value for a missing
\* or malformed state.json, and the first cycle after it fails only in the
\* fetch, the delivery or the save.
C4_MalformedIsNoBaseline ==
    /\ (pc = "while" /\ next_run = 0 /\ outcome = "none" /\ Malformed(file))
         => state = EmptyState
    /\ (pc = "except" /\ last_outcome = "none" /\ Malformed(cycle_file))
         => (snap = <<>> \/ ~snap[1].nodes_ok \/ ~snap[1].ts_ok \/ report # <<>>)

\* C10 (as claimed): at the start of every cycle the in-memory baseline equals
\* the one load_state would return from state.json.
C10_BaselineMatchesFile ==
    pc = "fetch" => state = load_state(file)

\* C9 (as claimed): once _should_stop is set no new cycle starts, the cycle in
\* progress runs to completion, main returns, and the shut-down state is
\* reached eventually.
C9_NoNewCycleAfterSignal ==
    /\ [][(should_stop /\ pc # "fetch") => pc' # "fetch"]_vars
    /\ [][(should_stop /\ pc # "while") => pc' # "done"]_vars
    /\ (should_stop ~> pc = "done")

\* C9 (amended): the flag is read only by the loop test of line 136.  Once it
\* is set it stays set, the next loop test ends the loop and main returns; no
\* new cycle starts unless the signal arrived between a passed loop test and
\* the start of the cycle of that iteration; a cycle in progress is not
\* interrupted; under fair scheduling the shut-down state is reached.
C9_StopsAtNextLoopTest ==
    /\ [][should_stop => should_stop']_vars
    /\ [][(should_stop /\ pc = "while" /\ pc' # "while") => pc' = "done"]_vars
    /\ [][(should_stop /\ sig_at # "test" /\ pc # "fetch") => pc' # "fetch"]_vars
    /\ [][(should_stop /\ pc # "while") => pc' # "done"]_vars
    /\ (should_stop ~> pc = "done")

\* C9 witness: the signal arrived during a cycle, the cycle delivered and
\* saved, and main has returned.
C9_Witness ==
    pc = "done" /\ should_stop /\ sig_at = "cycle" /\ outcome = "ok" /\ file = json_dump(state)

====
